---- MODULE Spec2Model ----
(***************************************************************************)
(* A model of the mcp-youtube server: the transcribe_youtube and           *)
(* get_transcript tool handlers (tools.ts), the yt-dlp adapter (ytdlp.ts), *)
(* the transcript store (io.ts over fs.ts) and the error surface           *)
(* (types/errors.ts).                                                      *)
(*                                                                         *)
(* Conventions.  A JS string is a TLA+ string where the program treats it  *)
(* as opaque and a sequence of one-character strings where the program     *)
(* takes it apart or builds it (timestamps, caption lines).  A JSON leaf   *)
(* is tagged with its type, [str |-> s] or [num |-> n]; a number of        *)
(* seconds is held in milliseconds and a confidence in hundredths.         *)
(* Every await of the handlers is a step boundary.                         *)
(***************************************************************************)
EXTENDS Integers, Sequences, FiniteSets, TLC

VARIABLES
    store,      \* transcripts folder: video id -> file text
    tmp,        \* working directory: temp caption file name -> content
    pc,         \* position of each transcribe request in its handler
    req,        \* the request: arguments, progress token, sink
    loc,        \* the handler's locals: metadata, segments, language, ...
    emitted,    \* progress notifications delivered for each request
    calls,      \* external-tool invocations made by each request
    writes,     \* number of store writes begun by each request
    result,     \* what the handler returned or threw to the caller
    persisted,  \* video id -> the record and writer of the last completed write
    gpc, greq, gres, gexpect,   \* one get_transcript caller
    wpc, wreq, wres,            \* one direct caller of the store functions
    folder,                \* resources.ts: the .json files listTranscriptFiles finds
    TRANSCRIPT_RESOURCES,  \* resources.ts: the module-level resource array
    loaders,               \* the runs of loadTranscriptResources under way
    lpc, lreq, lres,       \* one caller of resources/list
    walk,                  \* the pages that caller got by following nextCursor
    vttIn, vttOut,         \* a caption file given to the parser, and its segments
    codec                  \* a timestamp given to parseVTTTime and what becomes of it

vars == <<store, tmp, pc, req, loc, emitted, calls, writes, result, persisted,
          gpc, greq, gres, gexpect, wpc, wreq, wres,
          folder, TRANSCRIPT_RESOURCES, loaders, lpc, lreq, lres, walk,
          vttIn, vttOut, codec>>

reqVars == <<pc, req, loc, emitted, calls, writes, result>>
getVars == <<gpc, greq, gres, gexpect>>
wrVars == <<wpc, wreq, wres>>
resVars == <<folder, TRANSCRIPT_RESOURCES, loaders, lpc, lreq, lres, walk>>
vttVars == <<vttIn, vttOut, codec>>

----------------------------------------------------------------------------
(* Text helpers *)

Digits == <<"0", "1", "2", "3", "4", "5", "6", "7", "8", "9">>

RECURSIVE NatToText(_)
\* Number.prototype.toString for a non-negative integer
NatToText(n) ==
    IF n < 10 THEN <<Digits[n + 1]>>
    ELSE NatToText(n \div 10) \o <<Digits[(n % 10) + 1]>>

RECURSIVE padStart(_, _, _)
\* String.prototype.padStart with a one-character fill
padStart(s, len, ch) ==
    IF Len(s) >= len THEN s ELSE padStart(<<ch>> \o s, len, ch)

\* (x).toFixed(3) for x >= 0 held in milliseconds
toFixed3(ms) ==
    NatToText(ms \div 1000) \o <<".">> \o padStart(NatToText(ms % 1000), 3, "0")

\* a variant that does not pad the seconds field
secondsToVTTTime_NoPad(totalMs) ==
    LET hours   == totalMs \div 3600000
        minutes == (totalMs % 3600000) \div 60000
        seconds == totalMs % 60000
    IN  padStart(NatToText(hours), 2, "0") \o <<":">>
          \o padStart(NatToText(minutes), 2, "0") \o <<":">>
          \o toFixed3(seconds)

\* ytdlp.ts secondsToVTTTime: HH:MM:SS.mmm, zero padded
secondsToVTTTime(totalMs) ==
    LET hours   == totalMs \div 3600000
        minutes == (totalMs % 3600000) \div 60000
        seconds == totalMs % 60000
    IN  padStart(NatToText(hours), 2, "0") \o <<":">>
          \o padStart(NatToText(minutes), 2, "0") \o <<":">>
          \o padStart(toFixed3(seconds), 6, "0")

----------------------------------------------------------------------------
(* String functions of JS used by the caption code *)

IsSpace(c) == c \in {" ", "\t", "\r"}
IsDigit(c) == c \in {"0", "1", "2", "3", "4", "5", "6", "7", "8", "9"}
DigitValue(c) == CHOOSE d \in 0..9 : Digits[d + 1] = c

RECURSIVE trimStart(_)
trimStart(s) ==
    IF s # <<>> /\ IsSpace(Head(s)) THEN trimStart(Tail(s)) ELSE s

RECURSIVE trimEnd(_)
trimEnd(s) ==
    IF s # <<>> /\ IsSpace(s[Len(s)]) THEN trimEnd(SubSeq(s, 1, Len(s) - 1)) ELSE s

\* String.prototype.trim
trim(s) == trimEnd(trimStart(s))

OccursAt(s, i, needle) ==
    /\ i + Len(needle) - 1 <= Len(s)
    /\ SubSeq(s, i, i + Len(needle) - 1) = needle

\* String.prototype.indexOf, 1-based; 0 when the needle does not occur
indexOf(s, needle) ==
    LET hits == {i \in 1..Len(s) : OccursAt(s, i, needle)}
    IN  IF hits = {} THEN 0 ELSE CHOOSE i \in hits : \A k \in hits : i <= k

\* String.prototype.includes
includes(s, needle) == indexOf(s, needle) # 0

RECURSIVE split(_, _)
\* String.prototype.split with a non-empty separator
split(s, sep) ==
    LET i == indexOf(s, sep)
    IN  IF i = 0 THEN <<s>>
        ELSE <<SubSeq(s, 1, i - 1)>> \o split(SubSeq(s, i + Len(sep), Len(s)), sep)

RECURSIVE join(_, _)
\* Array.prototype.join
join(parts, sep) ==
    IF parts = <<>> THEN <<>>
    ELSE IF Len(parts) = 1 THEN parts[1]
    ELSE parts[1] \o sep \o join(Tail(parts), sep)

\* a variant that removes the first tag only (a replace without the g flag)
stripTags_First(s) ==
    LET open == indexOf(s, <<"<">>)
        rest == SubSeq(s, open + 1, Len(s))
        close == indexOf(rest, <<">">>)
    IN  IF open = 0 \/ close = 0 THEN s
        ELSE SubSeq(s, 1, open - 1) \o SubSeq(rest, close + 1, Len(rest))

RECURSIVE stripTags(_)
\* s.replace(/<[^>]*>/g, ''): every '<' up to the next '>' goes
stripTags(s) ==
    IF s = <<>> THEN s
    ELSE IF Head(s) = "<"
         THEN LET close == indexOf(s, <<">">>)
              IN  IF close = 0 THEN s
                  ELSE stripTags(SubSeq(s, close + 1, Len(s)))
         ELSE <<Head(s)>> \o stripTags(Tail(s))

RECURSIVE DigitPrefix(_)
DigitPrefix(s) ==
    IF s # <<>> /\ IsDigit(Head(s)) THEN <<Head(s)>> \o DigitPrefix(Tail(s)) ELSE <<>>

RECURSIVE DigitsValue(_)
DigitsValue(ds) ==
    IF ds = <<>> THEN 0
    ELSE 10 * DigitsValue(SubSeq(ds, 1, Len(ds) - 1)) + DigitValue(ds[Len(ds)])

NaN == [nan |-> TRUE, val |-> 0]
Number(n) == [nan |-> FALSE, val |-> n]

\* x || 0 for a number x
OrZero(x) == IF x.nan THEN 0 ELSE x.val

\* parseInt(s) for an unsigned decimal prefix; NaN without one
parseInt(s) ==
    LET ds == DigitPrefix(trimStart(s))
    IN  IF ds = <<>> THEN NaN ELSE Number(DigitsValue(ds))

\* parseFloat(s) for an unsigned decimal prefix, in thousandths (digits past
\* the third decimal are dropped); NaN without a digit
parseFloat(s) ==
    LET t    == trimStart(s)
        ip   == DigitPrefix(t)
        rest == SubSeq(t, Len(ip) + 1, Len(t))
        fp   == IF rest # <<>> /\ Head(rest) = "." THEN DigitPrefix(Tail(rest)) ELSE <<>>
        f3   == SubSeq(fp \o <<"0", "0", "0">>, 1, 3)
    IN  IF ip = <<>> /\ fp = <<>> THEN NaN
        ELSE Number(1000 * DigitsValue(ip) + DigitsValue(f3))

\* ytdlp.ts parseVTTTime, in milliseconds; parts[k] beyond the end is
\* undefined, which parses to NaN
parseVTTTime(timeStr) ==
    LET parts   == split(timeStr, <<":">>)
        part(k) == IF k <= Len(parts) THEN parts[k] ELSE <<>>
        hours   == OrZero(parseInt(part(1)))
        minutes == OrZero(parseInt(part(2)))
        seconds == OrZero(parseFloat(part(3)))
    IN  hours * 3600000 + minutes * 60000 + seconds

----------------------------------------------------------------------------
(* JSON values and the Transcript schema (types/transcript.ts) *)

Str(s) == [str |-> s]
Num(n) == [num |-> n]
IsString(v) == "str" \in DOMAIN v
IsNumber(v) == "num" \in DOMAIN v

Has(obj, f) == f \in DOMAIN obj

Pick(obj, fields) == [f \in fields |-> obj[f]]

SegmentFields == {"start_time", "end_time", "text"}
MetadataFields == {"transcription_date", "source", "language", "confidence"}
TranscriptFields ==
    {"video_id", "title", "uploader", "duration", "url", "transcript", "metadata"}

\* z.object({start_time: z.string(), end_time: z.string(), text: z.string()})
SegmentValid(s) ==
    /\ SegmentFields \subseteq DOMAIN s
    /\ \A f \in SegmentFields : IsString(s[f])

\* .min(0).max(1) of confidence, in hundredths
ConfidenceMin == 0
ConfidenceMax == 100

\* z.object({transcription_date, source: z.enum(["yt_dlp"]), language,
\*           confidence: z.number().min(0).max(1)})
MetadataValid(m) ==
    /\ MetadataFields \subseteq DOMAIN m
    /\ IsString(m.transcription_date)
    /\ IsString(m.source) /\ m.source.str = "yt_dlp"
    /\ IsString(m.language)
    /\ IsNumber(m.confidence)
    /\ m.confidence.num >= ConfidenceMin /\ m.confidence.num <= ConfidenceMax

TranscriptValid(t) ==
    /\ TranscriptFields \subseteq DOMAIN t
    /\ \A f \in {"video_id", "title", "uploader", "duration", "url"} : IsString(t[f])
    /\ \A i \in 1..Len(t.transcript) : SegmentValid(t.transcript[i])
    /\ MetadataValid(t.metadata)

\* a variant that keeps every key of the data (a passthrough schema)
TranscriptStrip_Passthrough(t) == t

\* result.data of a successful safeParse: zod objects drop the keys the
\* schema does not declare, at every level
TranscriptStrip(t) ==
    [f \in TranscriptFields |->
        CASE f = "transcript" ->
                [i \in 1..Len(t.transcript) |-> Pick(t.transcript[i], SegmentFields)]
          [] f = "metadata" -> Pick(t.metadata, MetadataFields)
          [] OTHER -> t[f]]

\* TranscriptSchema.safeParse(data)
SafeParse(data) ==
    IF TranscriptValid(data)
    THEN [success |-> TRUE, data |-> TranscriptStrip(data)]
    ELSE [success |-> FALSE]

----------------------------------------------------------------------------
(* Errors (types/errors.ts) *)

FileSystemError(message, operation, path) ==
    [name |-> "FileSystemError", message |-> message,
     operation |-> operation, path |-> path]

YtDlpError(message, exitCode, stderr) ==
    [name |-> "YtDlpError", message |-> message,
     exitCode |-> exitCode, stderr |-> stderr]

TranscriptNotFoundError(videoId) ==
    [name |-> "TranscriptNotFoundError",
     message |-> <<"No transcript found for video ID: ", videoId>>,
     videoId |-> videoId]

PlainError(message) == [name |-> "Error", message |-> message]

\* handleError: the JSON text of the Error thrown to the caller
handleError(error) ==
    CASE error.name = "YtDlpError" ->
            [error |-> "yt-dlp execution failed", exit_code |-> error.exitCode,
             message |-> error.message, stderr |-> error.stderr]
      [] error.name = "TranscriptNotFoundError" ->
            [error |-> "transcript_not_found", video_id |-> error.videoId,
             message |-> error.message,
             suggested_action |->
                "Use transcribe_youtube tool to create a transcript for this video first"]
      [] OTHER -> [error |-> "unknown", message |-> error.message]

Thrown(e) == [ok |-> FALSE, error |-> e]
Returned(v) == [ok |-> TRUE, value |-> v]
NoResult == [pending |-> TRUE]
HasReturned(x) == "ok" \in DOMAIN x /\ x.ok
HasThrown(x) == "ok" \in DOMAIN x /\ ~x.ok

----------------------------------------------------------------------------
(* Files of the transcripts folder (fs.ts, io.ts) *)

VideoIds == {"abc123", "xyz789"}

Absent == [kind |-> "absent"]
EmptyText == [kind |-> "empty"]
Garbage == [kind |-> "garbage"]
JsonText(doc) == [kind |-> "json", doc |-> doc]

\* the JS value undefined
Undef == [undef |-> TRUE]
IsUndefined(obj, f) == f # "transcript" /\ "undef" \in DOMAIN obj[f]

\* JSON.stringify leaves out the properties of an object that are undefined
DropUndefined(obj) == Pick(obj, {f \in DOMAIN obj : ~IsUndefined(obj, f)})

\* JSON.stringify(data, null, 2) of a record shaped like a Transcript: the text
\* denotes the value it was made from, less the undefined properties
Stringify(data) ==
    LET top == DropUndefined(data)
    IN  JsonText([f \in DOMAIN top |->
            CASE f = "transcript" ->
                    [i \in 1..Len(top.transcript) |-> DropUndefined(top.transcript[i])]
              [] f = "metadata" -> DropUndefined(top.metadata)
              [] OTHER -> top[f]])

\* JSON.parse(content): the value a JSON text denotes, or a SyntaxError
JsonParse(text) ==
    IF text.kind = "json" THEN Returned(text.doc)
    ELSE Thrown(PlainError("Unexpected token or end of JSON input"))

\* path.join(TRANSCRIPTS_FOLDER, `${videoId}.json`)
FilePath(videoId) == videoId

\* a variant that is called without a schema: the decoded value is returned
\* as it is
readJSON_NoSchema(text, filePath) ==
    IF ~JsonParse(text).ok
    THEN Thrown(FileSystemError("Invalid JSON in file", "parse", filePath))
    ELSE Returned(JsonParse(text).value)

\* fs.ts readJSON(filePath, TranscriptSchema) on the text of an existing file
readJSON(text, filePath) ==
    IF ~JsonParse(text).ok
    THEN Thrown(FileSystemError("Invalid JSON in file", "parse", filePath))
    ELSE LET r == SafeParse(JsonParse(text).value)
         IN  IF ~r.success
             THEN Thrown(FileSystemError("JSON validation failed", "validate", filePath))
             ELSE Returned(r.data)

\* fs.ts writeJSON up to the call of writeFile: the text to write, or the throw
writeJSON(data, filePath) ==
    IF ~SafeParse(data).success
    THEN Thrown(FileSystemError("Data validation failed", "validate", filePath))
    ELSE Returned(Stringify(data))

----------------------------------------------------------------------------
(* Sample records for the store functions *)

Seg(startMs, endMs, text) ==
    [start_time |-> Str(secondsToVTTTime(startMs)),
     end_time |-> Str(secondsToVTTTime(endMs)),
     text |-> Str(text)]

WithField(obj, f, v) == [g \in DOMAIN obj \cup {f} |-> IF g = f THEN v ELSE obj[g]]

ValidT ==
    [video_id |-> Str("abc123"), title |-> Str("T"), uploader |-> Str("U"),
     duration |-> Str(secondsToVTTTime(42000)),
     url |-> Str("https://youtu.be/abc123"),
     transcript |-> <<Seg(0, 3000, <<"hello">>), Seg(3000, 5000, <<"world">>)>>,
     metadata |-> [transcription_date |-> Str("2025-01-01T00:00:00.000Z"),
                   source |-> Str("yt_dlp"), language |-> Str("en"),
                   confidence |-> Num(95)]]

\* schema-valid, with a key the schema does not declare (VideoMetadata.channel)
ExtraT == WithField(ValidT, "channel", Str("C"))

\* schema-valid, with the optional channel of VideoMetadata left undefined
UndefT == WithField(ValidT, "channel", Undef)

\* schema-valid, with an undeclared key inside a segment
ExtraSegT ==
    [ValidT EXCEPT !.transcript =
        <<WithField(Seg(0, 3000, <<"hello">>), "speaker", Str("A"))>>]

\* the integer-seconds record of the earlier schema: invalid under this one
LegacyT ==
    [ValidT EXCEPT !.duration = Num(42000),
                   !.transcript = <<[start |-> Num(0), duration |-> Num(3000),
                                     text |-> Str(<<"hello">>)]>>]

\* confidence 1.5 is outside [0, 1]
BadConfidenceT == [ValidT EXCEPT !.metadata.confidence = Num(150)]

\* no metadata object
NoMetadataT == Pick(ValidT, TranscriptFields \ {"metadata"})

SampleRecords == {ValidT, ExtraT, UndefT, ExtraSegT, LegacyT, BadConfidenceT, NoMetadataT}

\* what a transcripts folder can hold before the server starts
InitialFiles == {Absent, Garbage, JsonText(LegacyT), JsonText(ValidT)}

NoneP == [none |-> TRUE]

----------------------------------------------------------------------------
(* The store: io.ts writeTranscriptFile / readTranscriptFile *)

\* a write step on id disturbs a get_transcript of id that is under way
Disturbed(id) ==
    IF gpc \in {"exists", "read"} /\ greq.videoId = id THEN NoneP ELSE gexpect

\* fs.promises.writeFile opens the file with flag 'w': it is truncated first
OpenTruncate(id) ==
    /\ store' = [store EXCEPT ![id] = EmptyText]
    /\ persisted' = [persisted EXCEPT ![id] = NoneP]
    /\ gexpect' = Disturbed(id)

RECURSIVE PiecesLength(_)
\* the number of characters of a string held as a sequence of pieces
PiecesLength(s) == IF s = <<>> THEN 0 ELSE Len(Head(s)) + PiecesLength(Tail(s))

\* the characters of a number of hundredths as JSON prints it: 0, 0.5, 0.95, 1
NumberChars(n) == IF n % 100 = 0 THEN 1 ELSE IF n % 10 = 0 THEN 3 ELSE 4

\* the characters JSON.stringify(data, null, 2) adds around the values of a
\* Transcript: braces, keys, quotes, commas, line breaks and indentation, for
\* the record without its segments and for each segment
StringifyFrame == 214
StringifySegmentFrame == 76

RECURSIVE SegmentsLength(_)
SegmentsLength(segs) ==
    IF segs = <<>> THEN 0
    ELSE StringifySegmentFrame
         + PiecesLength(Head(segs).start_time.str)
         + PiecesLength(Head(segs).end_time.str)
         + PiecesLength(Head(segs).text.str)
         + SegmentsLength(Tail(segs))

\* the length of the text JSON.stringify(data, null, 2) makes of a Transcript
\* (an empty array is printed as [], two characters less)
TranscriptTextLength(doc) ==
    StringifyFrame - (IF doc.transcript = <<>> THEN 2 ELSE 0)
    + Len(doc.video_id.str) + Len(doc.title.str) + Len(doc.uploader.str)
    + PiecesLength(doc.duration.str) + Len(doc.url.str)
    + SegmentsLength(doc.transcript)
    + Len(doc.metadata.transcription_date.str) + Len(doc.metadata.source.str)
    + Len(doc.metadata.language.str) + NumberChars(doc.metadata.confidence.num)

\* the length of a file
TextLength(text) ==
    CASE text.kind = "json" -> TranscriptTextLength(text.doc)
      [] text.kind = "mixed" -> text.length
      [] OTHER -> 0

\* the write of `text` at offset 0 of a file that holds `current`: what lies
\* beyond the end of the new text stays
Overwrite(current, text) ==
    IF current.kind = "empty" \/ TextLength(text) >= TextLength(current)
    THEN text
    ELSE [kind |-> "mixed", head |-> text.doc, length |-> TextLength(current)]

\* ... and the whole text is written next, from the start of the file: the
\* file is not truncated again if another writer has written meanwhile
WriteText(id, text, who, data) ==
    LET content == Overwrite(store[id], text)
    IN  /\ store' = [store EXCEPT ![id] = content]
        /\ persisted' = [persisted EXCEPT ![id] =
                            IF content = text THEN [by |-> who, data |-> data]
                            ELSE NoneP]
        /\ gexpect' = Disturbed(id)

\* a caller invokes writeTranscriptFile(videoId, transcriptData)
WriteCall(id, data) ==
    /\ wpc \in {"idle", "done"}
    /\ wpc' = "open"
    /\ wreq' = [videoId |-> id, data |-> data]
    /\ wres' = NoResult
    /\ UNCHANGED <<store, tmp, persisted, reqVars, getVars, resVars, vttVars>>

\* a variant that opens the file before the record is validated
WriteOpen_OpenFirst ==
    /\ wpc = "open"
    /\ LET w == writeJSON(wreq.data, FilePath(wreq.videoId))
       IN  /\ OpenTruncate(wreq.videoId)
           /\ IF w.ok
              THEN wpc' = "data" /\ wres' = wres
              ELSE wpc' = "done" /\ wres' = w
    /\ UNCHANGED <<tmp, wreq, reqVars, gpc, greq, gres, resVars, vttVars>>

\* writeTranscriptFile after `await fs.mkdir`: writeJSON validates, and on
\* success serialises and opens the file
WriteOpen ==
    /\ wpc = "open"
    /\ LET w == writeJSON(wreq.data, FilePath(wreq.videoId))
       IN  IF w.ok
           THEN /\ OpenTruncate(wreq.videoId)
                /\ wpc' = "data"
                /\ wres' = wres
           ELSE /\ wpc' = "done"
                /\ wres' = w
                /\ UNCHANGED <<store, persisted, gexpect>>
    /\ UNCHANGED <<tmp, wreq, reqVars, gpc, greq, gres, resVars, vttVars>>

\* the text reaches the file and writeTranscriptFile returns the path
WriteData ==
    /\ wpc = "data"
    /\ WriteText(wreq.videoId, writeJSON(wreq.data, FilePath(wreq.videoId)).value,
                 "w", wreq.data)
    /\ wpc' = "done"
    /\ wres' = Returned(FilePath(wreq.videoId))
    /\ UNCHANGED <<tmp, wreq, reqVars, gpc, greq, gres, resVars, vttVars>>

\* tools.ts get_transcript: a caller invokes the tool with {videoId}
GetCall(id) ==
    /\ gpc \in {"idle", "done", "rejected"}
    /\ gpc' = "exists"
    /\ greq' = [videoId |-> id]
    /\ gres' = NoResult
    /\ gexpect' = persisted[id]
    /\ UNCHANGED <<store, tmp, persisted, reqVars, wrVars, resVars, vttVars>>

\* arguments of get_transcript that fail ToolGetTranscriptInputSchema
BadGetArgs == {[url |-> "https://youtu.be/abc123"]}

\* get_transcript with such arguments: ToolGetTranscriptInputSchema.parse(args)
\* throws outside the try block, before readTranscriptFile is called
GetRejected(args) ==
    /\ gpc \in {"idle", "done", "rejected"}
    /\ gpc' = "rejected"
    /\ greq' = args
    /\ gres' = [read |-> NoResult, out |-> Thrown(PlainError("ZodError: videoId"))]
    /\ gexpect' = NoneP
    /\ UNCHANGED <<store, tmp, persisted, reqVars, wrVars, resVars, vttVars>>

\* what the get_transcript handler does with the outcome of readTranscriptFile
GetOutcome(read) ==
    [read |-> read,
     out |-> IF read.ok THEN Returned(read.value) ELSE Thrown(handleError(read.error))]

\* a variant without the existence check: the read of a missing file fails
\* in fs.readFile
GetExists_NoCheck ==
    /\ gpc = "exists"
    /\ IF store[greq.videoId] = Absent
       THEN /\ gres' = GetOutcome(Thrown(FileSystemError("ENOENT: no such file",
                                                          "read", FilePath(greq.videoId))))
            /\ gpc' = "done"
       ELSE /\ gres' = gres
            /\ gpc' = "read"
    /\ UNCHANGED <<store, tmp, persisted, reqVars, wrVars, greq, gexpect, resVars, vttVars>>

\* readTranscriptFile: `await fs.fileExists(filepath)`
GetExists ==
    /\ gpc = "exists"
    /\ IF store[greq.videoId] = Absent
       THEN /\ gres' = GetOutcome(Thrown(TranscriptNotFoundError(greq.videoId)))
            /\ gpc' = "done"
       ELSE /\ gres' = gres
            /\ gpc' = "read"
    /\ UNCHANGED <<store, tmp, persisted, reqVars, wrVars, greq, gexpect, resVars, vttVars>>

\* readTranscriptFile: `await fs.readJSON(filepath, TranscriptSchema)`
GetRead ==
    /\ gpc = "read"
    /\ gres' = GetOutcome(readJSON(store[greq.videoId], FilePath(greq.videoId)))
    /\ gpc' = "done"
    /\ UNCHANGED <<store, tmp, persisted, reqVars, wrVars, greq, gexpect, resVars, vttVars>>

----------------------------------------------------------------------------
(* The caption parser of ytdlp.ts extractSubtitles, lines 82-119 *)

Arrow == <<" ", "-", "-", ">", " ">>

\* `duration > 0.010`, in milliseconds
MicroSegment == 10

\* the cue starts of the sample captions, in milliseconds
CueStarts == {0, 1000, 3000}

\* the starts, among CueStarts, at which a cue of 10 ms has a computed
\* duration above the double 0.010: in IEEE 754 doubles 0.01 - 0 = 0.01,
\* 1.01 - 1 = 0.010000000000000009 and 3.01 - 3 = 0.009999999999999787
RoundedAbove == {1000}

\* `endSeconds - startSeconds > 0.010` on doubles: the rounding of the
\* operands decides when the times are 10 ms apart, and only then
ExceedsMicro(startMs, endMs) ==
    IF endMs - startMs = MicroSegment THEN startMs \in RoundedAbove
    ELSE endMs - startMs > MicroSegment

RECURSIVE TextLinesFrom(_, _)
\* the inner loop: from line j to the first blank line, the trimmed lines
\* that hold no arrow
TextLinesFrom(lines, j) ==
    IF j > Len(lines) \/ trim(lines[j]) = <<>> THEN <<>>
    ELSE (IF ~includes(lines[j], Arrow) THEN <<trim(lines[j])>> ELSE <<>>)
            \o TextLinesFrom(lines, j + 1)

\* the body of the outer loop at line i: the segments it pushes (none or one)
CueAt(lines, i) ==
    LET line == trim(lines[i])
    IN  IF ~includes(line, Arrow) THEN <<>>
        ELSE LET parts     == split(line, Arrow)
                 startTime == parts[1]
                 endTimeWithSettings == parts[2]
                 endTime   == split(endTimeWithSettings, <<" ">>)[1]
                 textLines == TextLinesFrom(lines, i + 1)
                 cleanText == stripTags(join(textLines, <<" ">>))
                 startSeconds == parseVTTTime(trim(startTime))
                 endSeconds   == parseVTTTime(trim(endTime))
             IN  IF textLines # <<>> /\ ExceedsMicro(startSeconds, endSeconds)
                 THEN <<[start_time |-> Str(trim(startTime)),
                         end_time |-> Str(trim(endTime)),
                         text |-> Str(cleanText)]>>
                 ELSE <<>>

RECURSIVE ParseFrom(_, _)
ParseFrom(lines, i) ==
    IF i > Len(lines) THEN <<>> ELSE CueAt(lines, i) \o ParseFrom(lines, i + 1)

\* vttContent.split('\n') is the sequence of lines the content is given as
ParseVTT(lines) == ParseFrom(lines, 1)

\* the parse loop, one action per turn of `for (let i = 0; ...)`: vttIn is
\* `lines`, vttOut holds i and transcriptSegments
NoParse == [i |-> 0, transcriptSegments |-> <<>>]

\* a variant that merges a cue into the segment before it when both have
\* the same text
ParseLine_Merge ==
    /\ vttOut.i < Len(vttIn)
    /\ LET segs   == vttOut.transcriptSegments
           new    == CueAt(vttIn, vttOut.i + 1)
           repeat == new # <<>> /\ segs # <<>> /\ segs[Len(segs)].text = new[1].text
       IN  vttOut' = [i |-> vttOut.i + 1,
                      transcriptSegments |-> IF repeat THEN segs ELSE segs \o new]
    /\ UNCHANGED <<store, tmp, persisted, reqVars, getVars, wrVars, resVars, vttIn, codec>>

ParseLine ==
    /\ vttOut.i < Len(vttIn)
    /\ vttOut' = [i |-> vttOut.i + 1,
                  transcriptSegments |-> vttOut.transcriptSegments
                                           \o CueAt(vttIn, vttOut.i + 1)]
    /\ UNCHANGED <<store, tmp, persisted, reqVars, getVars, wrVars, resVars, vttIn, codec>>

\* the loop has run over every line of a caption file
ParseDone == vttIn # <<>> /\ vttOut.i = Len(vttIn)

----------------------------------------------------------------------------
(* The timestamp codec of ytdlp.ts: parseVTTTime and secondsToVTTTime *)

NoCodec == [pc |-> "idle", timeStr |-> <<>>, seconds |-> 0, text |-> <<>>]

\* a field of a timestamp written with two or three digits
TwoDigits(n) == <<Digits[(n \div 10) + 1], Digits[(n % 10) + 1]>>
ThreeDigits(n) == <<Digits[(n \div 100) + 1]>> \o TwoDigits(n % 100)

\* the well-formed timestamps HH:MM:SS.mmm of the samples
SampleHours == {0, 1, 12}
SampleMinutes == {0, 5, 59}
SampleSeconds == {0, 7, 59}
SampleMillis == {0, 5, 456, 999}
Timestamp(h, m, sec, ms) ==
    TwoDigits(h) \o <<":">> \o TwoDigits(m) \o <<":">> \o TwoDigits(sec)
        \o <<".">> \o ThreeDigits(ms)
WellFormed ==
    {Timestamp(h, m, sec, ms) : h \in SampleHours, m \in SampleMinutes,
                                sec \in SampleSeconds, ms \in SampleMillis}

\* a field as a malformed timestamp may have it: a number, letters, nothing
SampleFields == {<<"0", "7">>, <<"2", "3", ".", "4", "5", "6">>, <<"x", "x">>, <<>>}
\* malformed timestamps: three fields of any kind, or fewer than three
Malformed ==
    ({join(<<a, b, c>>, <<":">>) : a \in SampleFields, b \in SampleFields,
                                  c \in SampleFields}
       \cup {join(<<a, b>>, <<":">>) : a \in SampleFields, b \in SampleFields}
       \cup SampleFields) \ WellFormed

\* `parseVTTTime(timeStr)`, which throws nothing: split, parseInt and
\* parseFloat return for every string
CodecParse ==
    /\ codec.pc = "given"
    /\ codec' = [codec EXCEPT !.pc = "parsed", !.seconds = parseVTTTime(codec.timeStr)]
    /\ UNCHANGED <<store, tmp, persisted, reqVars, getVars, wrVars, resVars, vttIn, vttOut>>

\* `secondsToVTTTime(seconds)` on what parseVTTTime returned
CodecFormat ==
    /\ codec.pc = "parsed"
    /\ codec' = [codec EXCEPT !.pc = "formatted", !.text = secondsToVTTTime(codec.seconds)]
    /\ UNCHANGED <<store, tmp, persisted, reqVars, getVars, wrVars, resVars, vttIn, vttOut>>

----------------------------------------------------------------------------
(* The external tool and what it can answer *)

Urls == {"https://youtu.be/abc123", "https://youtu.be/xyz789"}

\* the JSON document yt-dlp --dump-json prints for a URL; the second video
\* has no title and no uploader, and a fractional duration
MetadataDoc(url) ==
    IF url = "https://youtu.be/abc123"
    THEN [id |-> "abc123", title |-> "T", uploader |-> "U", duration |-> 42000]
    ELSE [id |-> "xyz789", channel |-> "Ch", duration |-> 7500]

ExecOk(stdout) == [failed |-> FALSE, stdout |-> stdout]
ExecFailed(message, code, stderr) ==
    [failed |-> TRUE, message |-> message, code |-> code, stderr |-> stderr]

\* exit 1 with an error on stderr; the timeout kill (no exit code, no stderr)
ExitUnavailable == ExecFailed("Command failed: yt-dlp", "1", <<"ERROR: Video unavailable">>)
ExitTimeout == ExecFailed("Command failed: yt-dlp", "", <<>>)
ExitNoSubtitles ==
    ExecFailed("Command failed: yt-dlp", "1", <<"ERROR: video has ", "no subtitles">>)
ExitNoAutoSubtitles ==
    ExecFailed("Command failed: yt-dlp", "1", <<"ERROR: video has ", "no automatic subtitles">>)

\* stderr.includes(needle), stderr given as the pieces it is made of
StderrIncludes(stderr, needle) == \E i \in DOMAIN stderr : stderr[i] = needle

\* ytdlp.ts execYtDlp on what execFileAsync answered
execYtDlp(outcome) ==
    IF ~outcome.failed THEN Returned(outcome.stdout)
    ELSE LET exitCode == IF outcome.code = "" THEN "unknown" ELSE outcome.code
             stderr   == outcome.stderr
         IN  IF \/ StderrIncludes(stderr, "no automatic subtitles")
                \/ StderrIncludes(stderr, "no subtitles")
             THEN Thrown(PlainError("NO_SUBTITLES_AVAILABLE"))
             ELSE Thrown(YtDlpError(IF outcome.message = "" THEN "yt-dlp execution failed"
                                    ELSE outcome.message, exitCode, stderr))

\* a || b on an optional string property
OrElse(doc, f, other) == IF f \in DOMAIN doc /\ doc[f] # "" THEN doc[f] ELSE other

\* ytdlp.ts getVideoMetadata on what execFileAsync answered
getVideoMetadata(outcome) ==
    LET out == execYtDlp(outcome)
    IN  IF ~out.ok THEN out
        ELSE LET parsed == JsonParse(out.value)
             IN  IF ~parsed.ok THEN parsed
                 ELSE LET metadata == parsed.value
                      IN  Returned(
                            [id |-> metadata.id,
                             title |-> OrElse(metadata, "title", "TITLE NOT FOUND"),
                             uploader |-> OrElse(metadata, "uploader",
                                            OrElse(metadata, "channel", "UPLOADER NOT FOUND")),
                             duration |-> secondsToVTTTime(
                                            (metadata.duration \div 1000) * 1000)])

MetadataOutcomes(url) ==
    {ExecOk(JsonText(MetadataDoc(url))), ExecOk(Garbage), ExitUnavailable, ExitTimeout}

\* caption files yt-dlp can leave in the working directory
Langs == {"en", "en-US"}
TempNames == VideoIds \X Langs

Line(startMs, endMs, settings) ==
    secondsToVTTTime(startMs) \o Arrow \o secondsToVTTTime(endMs) \o settings

VttTwoCues ==
    << <<"W", "E", "B", "V", "T", "T">>,
       <<>>,
       Line(0, 3000, <<>>),
       <<"h", "e", "l", "l", "o">>,
       <<>>,
       Line(3000, 5000, <<" ", "a", "l", "i", "g", "n", ":", "s", "t", "a", "r", "t">>),
       <<"<", "c", ">", "w", "o", "r", "l", "d", "<", "/", "c", ">">>,
       <<>> >>

VttNoCues == << <<"W", "E", "B", "V", "T", "T">>, <<>> >>

VttNames == {"two_cues", "no_cues"}
VttContent(name) == IF name = "two_cues" THEN VttTwoCues ELSE VttNoCues

\* the segments of each sample file
ParsedVtt == [name \in VttNames |-> ParseVTT(VttContent(name))]

\* sample caption files: the header and one or two cue blocks, each a timing
\* line, a text line and a blank line
CueLengths == {5, 10, 11, 3000}
\* a cue says "hi" or "yo", or has no text
CueTexts == {<<"h", "i">>, <<"y", "o">>, <<>>}
Cues == [start : CueStarts, len : CueLengths, text : CueTexts]
CueLists == {<<c>> : c \in Cues} \cup {<<c, d>> : c \in Cues, d \in Cues}

CueBlock(c) == <<Line(c.start, c.start + c.len, <<>>), c.text, <<>>>>

RECURSIVE CueBlocks(_)
CueBlocks(cues) ==
    IF cues = <<>> THEN <<>> ELSE CueBlock(Head(cues)) \o CueBlocks(Tail(cues))

VttOf(cues) == << <<"W", "E", "B", "V", "T", "T">>, <<>> >> \o CueBlocks(cues)

VttInputs == {VttOf(cues) : cues \in CueLists}

\* sample caption files for the text of a cue: the text lines of a cue block
\* carry markup, are two, or are markup alone, and the blank line after the
\* block may be missing
TextLines ==
    { << <<"<", "c", ">", "h", "e", "l", "l", "o", "<", "/", "c", ">", " ",
           "w", "o", "r", "l", "d">> >>,
      << <<"<", "c", ">", "<", "/", "c", ">">> >>,
      << <<"h", "i">> >>,
      << <<"h", "i">>, <<"<", "b", ">", "y", "o">> >>,
      << <<"a", "<", "<", "i", ">", ">", "b">> >> }
TextCues == [lines : TextLines, blank : BOOLEAN]
TextCueLists == {<<c>> : c \in TextCues} \cup {<<c, d>> : c \in TextCues, d \in TextCues}

\* the k-th block of such a file lasts 3 s from second 3 * (k - 1)
TextBlock(c, k) ==
    <<Line(3000 * (k - 1), 3000 * k, <<>>)>> \o c.lines
        \o (IF c.blank THEN << <<>> >> ELSE <<>>)

TextVttOf(cues) ==
    << <<"W", "E", "B", "V", "T", "T">>, <<>> >>
        \o TextBlock(cues[1], 1)
        \o (IF Len(cues) = 2 THEN TextBlock(cues[2], 2) ELSE <<>>)

TextVttInputs == {TextVttOf(cues) : cues \in TextCueLists}

NoFile == "none"

\* the subtitle call: exit 0 having written a caption file for some of the
\* requested languages (possibly none), or a failure
SubtitleOutcomes ==
    {[failed |-> FALSE, stdout |-> "", langs |-> ls, content |-> "two_cues"] :
        ls \in {{"en"}, Langs}}
    \cup {[failed |-> FALSE, stdout |-> "", langs |-> ls, content |-> "no_cues"] :
        ls \in {{}, {"en"}}}
    \cup {ExitNoSubtitles, ExitNoAutoSubtitles, ExitUnavailable, ExitTimeout}

----------------------------------------------------------------------------
(* tools.ts: the transcribe_youtube handler, one action per await *)

Requests == {"r1", "r2"}

\* arguments a caller can send: a url, or an object without one
TranscribeArgs == {[url |-> u] : u \in Urls} \cup {[videoId |-> "abc123"]}

\* new Date().toISOString() as read by each request
Now(r) == IF r = "r1" THEN "2025-01-01T00:00:00.000Z" ELSE "2025-01-01T00:00:01.000Z"

InitLoc ==
    [metadata |-> NoneP, transcriptSegments |-> <<>>, language |-> "unknown",
     caught |-> NoneP, toolOk |-> FALSE, vttFile |-> <<>>, parsed |-> <<>>,
     transcriptData |-> NoneP]

\* a variant that does not validate its arguments at the entry
Transcribe_Unchecked(r, args, token) ==
    /\ pc[r] = "idle"
    /\ req' = [req EXCEPT ![r] = [args |-> args, token |-> token]]
    /\ loc' = [loc EXCEPT ![r] = InitLoc]
    /\ pc' = [pc EXCEPT ![r] = "notify0"]
    /\ result' = result
    /\ UNCHANGED <<store, tmp, persisted, emitted, calls, writes, getVars, wrVars, resVars, vttVars>>

\* the handler is entered: ToolTranscribeYoutubeInputSchema.parse(args) throws
\* outside the try block when args has no url
Transcribe(r, args, token) ==
    /\ pc[r] = "idle"
    /\ req' = [req EXCEPT ![r] = [args |-> args, token |-> token]]
    /\ loc' = [loc EXCEPT ![r] = InitLoc]
    /\ IF "url" \in DOMAIN args
       THEN /\ pc' = [pc EXCEPT ![r] = "notify0"]
            /\ result' = result
       ELSE /\ pc' = [pc EXCEPT ![r] = "rejected"]
            /\ result' = [result EXCEPT ![r] = Thrown(PlainError("ZodError: url Required"))]
    /\ UNCHANGED <<store, tmp, persisted, emitted, calls, writes, getVars, wrVars, resVars, vttVars>>

\* the outer catch: handleError(error) throws to the caller
Fail(r, error) ==
    /\ pc' = [pc EXCEPT ![r] = "failed"]
    /\ result' = [result EXCEPT ![r] = Thrown(handleError(error))]

\* the inner catch around the caption step: the error is logged (caught) and
\* dropped, transcriptSegments and language keep their initial values
SubtitleCatch(r, error) ==
    /\ pc' = [pc EXCEPT ![r] = "notify3"]
    /\ loc' = [loc EXCEPT ![r].caught = error]
    /\ result' = result

\* extractSubtitles returned: the handler takes its segments and language
SubtitleReturn(r, segments, language) ==
    /\ pc' = [pc EXCEPT ![r] = "notify3"]
    /\ loc' = [loc EXCEPT ![r].transcriptSegments = segments, ![r].language = language]
    /\ result' = result

\* `total: 4` of every progress notification
ProgressTotal == 4

\* a variant that sends the value 1 again at the caption checkpoint
ProgressAt_Repeat(k) == IF k = 2 THEN 1 ELSE k

\* the progress value sent at each notification of the handler
ProgressAt(k) == k

\* `if (progressToken !== undefined) await server.notification(...)` with
\* progress k; each notification is delivered, or rejects when the sink is
\* unavailable at that moment
Notify(r, k, next, inInnerTry) ==
    /\ pc[r] = next[1]
    /\ \E delivered \in BOOLEAN :
         IF ~req[r].token \/ delivered
         THEN /\ pc' = [pc EXCEPT ![r] = next[2]]
              /\ emitted' = [emitted EXCEPT ![r] =
                              IF req[r].token
                              THEN Append(@, [progress |-> ProgressAt(k), total |-> ProgressTotal])
                              ELSE @]
              /\ result' = result
              /\ loc' = loc
         ELSE /\ emitted' = emitted
              /\ IF inInnerTry
                 THEN SubtitleCatch(r, PlainError("Not connected"))
                 ELSE Fail(r, PlainError("Not connected")) /\ loc' = loc
    /\ UNCHANGED <<store, tmp, persisted, req, calls, writes, getVars, wrVars, resVars, vttVars>>

Notify0(r) == Notify(r, 0, <<"notify0", "metadata">>, FALSE)
Notify1(r) == Notify(r, 1, <<"notify1", "notify2">>, FALSE)
Notify2(r) == Notify(r, 2, <<"notify2", "subtitles">>, TRUE)
Notify3(r) == Notify(r, 3, <<"notify3", "write">>, FALSE)

\* a variant that catches the failure of the metadata fetch and goes on with
\* a record made from the url
FetchMetadata_GoOn(r) ==
    /\ pc[r] = "metadata"
    /\ \E outcome \in MetadataOutcomes(req[r].args.url) :
         LET m == getVideoMetadata(outcome)
             fallback == [id |-> "abc123", title |-> "TITLE NOT FOUND",
                          uploader |-> "UPLOADER NOT FOUND",
                          duration |-> secondsToVTTTime(0)]
         IN  /\ loc' = [loc EXCEPT ![r].metadata = IF m.ok THEN m.value ELSE fallback]
             /\ pc' = [pc EXCEPT ![r] = "notify1"]
             /\ result' = result
             /\ calls' = [calls EXCEPT ![r] =
                            Append(@, [tool |-> "metadata", answer |-> outcome])]
    /\ UNCHANGED <<store, tmp, persisted, req, emitted, writes, getVars, wrVars, resVars, vttVars>>

\* `await getVideoMetadata(url)`
FetchMetadata(r) ==
    /\ pc[r] = "metadata"
    /\ \E outcome \in MetadataOutcomes(req[r].args.url) :
         LET m == getVideoMetadata(outcome)
         IN  /\ IF m.ok
                THEN /\ loc' = [loc EXCEPT ![r].metadata = m.value]
                     /\ pc' = [pc EXCEPT ![r] = "notify1"]
                     /\ result' = result
                ELSE /\ Fail(r, m.error)
                     /\ loc' = loc
             /\ calls' = [calls EXCEPT ![r] =
                            Append(@, [tool |-> "metadata", answer |-> outcome])]
    /\ UNCHANGED <<store, tmp, persisted, req, emitted, writes, getVars, wrVars, resVars, vttVars>>

\* temp_${videoId}...vtt files now in the working directory
TempFilesOf(videoId) == {f \in TempNames : f[1] = videoId /\ tmp[f] # NoFile}

\* a variant whose yt-dlp call has no timeout: a process that does not end is
\* waited for
SubsExec_NoTimeout(r) ==
    /\ pc[r] = "subtitles"
    /\ \E outcome \in SubtitleOutcomes :
         LET out == execYtDlp(outcome)
             id  == loc[r].metadata.id
         IN  IF outcome = ExitTimeout
             THEN /\ pc' = [pc EXCEPT ![r] = "waiting"]
                  /\ UNCHANGED <<tmp, loc, result, calls>>
             ELSE
             /\ tmp' = IF outcome.failed THEN tmp
                       ELSE [f \in TempNames |->
                               IF f[1] = id /\ f[2] \in outcome.langs
                               THEN outcome.content ELSE tmp[f]]
             /\ IF out.ok
                THEN /\ pc' = [pc EXCEPT ![r] = "readdir"]
                     /\ loc' = [loc EXCEPT ![r].toolOk = TRUE]
                     /\ result' = result
                ELSE IF out.error.message = "NO_SUBTITLES_AVAILABLE"
                THEN SubtitleReturn(r, <<>>, "unknown")
                ELSE SubtitleCatch(r, out.error)
             /\ calls' = [calls EXCEPT ![r] =
                            Append(@, [tool |-> "subtitles", answer |-> outcome])]
    /\ UNCHANGED <<store, persisted, req, emitted, writes, getVars, wrVars, resVars, vttVars>>

\* extractSubtitles up to `await execYtDlp(subtitleArgs, 45000)` and its catch
SubsExec(r) ==
    /\ pc[r] = "subtitles"
    /\ \E outcome \in SubtitleOutcomes :
         LET out == execYtDlp(outcome)
             id  == loc[r].metadata.id
         IN  /\ tmp' = IF outcome.failed THEN tmp
                       ELSE [f \in TempNames |->
                               IF f[1] = id /\ f[2] \in outcome.langs
                               THEN outcome.content ELSE tmp[f]]
             /\ IF out.ok
                THEN /\ pc' = [pc EXCEPT ![r] = "readdir"]
                     /\ loc' = [loc EXCEPT ![r].toolOk = TRUE]
                     /\ result' = result
                ELSE IF out.error.message = "NO_SUBTITLES_AVAILABLE"
                THEN SubtitleReturn(r, <<>>, "unknown")
                ELSE SubtitleCatch(r, out.error)
             /\ calls' = [calls EXCEPT ![r] =
                            Append(@, [tool |-> "subtitles", answer |-> outcome])]
    /\ UNCHANGED <<store, persisted, req, emitted, writes, getVars, wrVars, resVars, vttVars>>

\* a variant in which a missing caption file is an error of the request
SubsReaddir_Throw(r) ==
    /\ pc[r] = "readdir"
    /\ LET found == TempFilesOf(loc[r].metadata.id)
       IN  IF found = {}
           THEN Fail(r, PlainError("ENOENT: no caption file")) /\ loc' = loc
           ELSE /\ \E f \in found : loc' = [loc EXCEPT ![r].vttFile = f]
                /\ pc' = [pc EXCEPT ![r] = "readfile"]
                /\ result' = result
    /\ UNCHANGED <<store, tmp, persisted, req, emitted, calls, writes, getVars, wrVars, resVars, vttVars>>

\* `await fs.readdir('.')` and files.find(...): the first matching name in
\* directory order, which is any of them
SubsReaddir(r) ==
    /\ pc[r] = "readdir"
    /\ LET found == TempFilesOf(loc[r].metadata.id)
       IN  IF found = {}
           THEN SubtitleReturn(r, <<>>, "unknown")
           ELSE /\ \E f \in found : loc' = [loc EXCEPT ![r].vttFile = f]
                /\ pc' = [pc EXCEPT ![r] = "readfile"]
                /\ result' = result
    /\ UNCHANGED <<store, tmp, persisted, req, emitted, calls, writes, getVars, wrVars, resVars, vttVars>>

\* `await fs.readFile(vttFile, 'utf-8')`, which rejects when the file is gone
\* or cannot be read, and the parse loop
SubsReadFile(r) ==
    /\ pc[r] = "readfile"
    /\ \E readable \in BOOLEAN :
         IF tmp[loc[r].vttFile] = NoFile \/ ~readable
         THEN SubtitleCatch(r, PlainError("readFile failed"))
         ELSE /\ loc' = [loc EXCEPT ![r].parsed = ParsedVtt[tmp[loc[r].vttFile]]]
              /\ pc' = [pc EXCEPT ![r] = "unlink"]
              /\ result' = result
    /\ UNCHANGED <<store, tmp, persisted, req, emitted, calls, writes, getVars, wrVars, resVars, vttVars>>

\* `await fs.unlink(vttFile)`, which rejects when the file is gone, and the return
SubsUnlink(r) ==
    /\ pc[r] = "unlink"
    /\ IF tmp[loc[r].vttFile] = NoFile
       THEN /\ SubtitleCatch(r, PlainError("ENOENT: unlink"))
            /\ tmp' = tmp
       ELSE /\ tmp' = [tmp EXCEPT ![loc[r].vttFile] = NoFile]
            /\ SubtitleReturn(r, loc[r].parsed, "en")
    /\ UNCHANGED <<store, persisted, req, emitted, calls, writes, getVars, wrVars, resVars, vttVars>>

\* confidence 0.95 and 0.0, in hundredths
ConfidenceWithSegments == 95
ConfidenceWithout == 0

ZeroTime == <<"0", "0", ":", "0", "0", ":", "0", "0", ".", "0", "0", "0">>

SentinelSegment ==
    [start_time |-> Str(ZeroTime), end_time |-> Str(ZeroTime),
     text |-> Str(<<"No transcript available for this video">>)]

\* a variant whose confidence is 0.95 only when no segment was extracted
TranscriptData_Swapped(r) ==
    LET metadata == loc[r].metadata
        transcriptSegments == loc[r].transcriptSegments
    IN  [video_id |-> Str(metadata.id),
         title |-> Str(metadata.title),
         uploader |-> Str(metadata.uploader),
         duration |-> Str(metadata.duration),
         url |-> Str(req[r].args.url),
         transcript |-> IF Len(transcriptSegments) > 0 THEN transcriptSegments
                        ELSE <<SentinelSegment>>,
         metadata |-> [transcription_date |-> Str(Now(r)),
                       source |-> Str("yt_dlp"),
                       language |-> Str(loc[r].language),
                       confidence |-> Num(IF Len(transcriptSegments) > 0
                                         THEN ConfidenceWithout
                                         ELSE ConfidenceWithSegments)]]

\* a variant that ends every transcript with the sentinel segment
TranscriptData_AlwaysSentinel(r) ==
    LET transcriptSegments == loc[r].transcriptSegments
    IN  [TranscriptData_Swapped(r) EXCEPT
            !.transcript = transcriptSegments \o <<SentinelSegment>>,
            !.metadata.confidence = Num(IF Len(transcriptSegments) > 0
                                        THEN ConfidenceWithSegments
                                        ELSE ConfidenceWithout)]

\* tools.ts lines 119-136
TranscriptData(r) ==
    LET metadata == loc[r].metadata
        transcriptSegments == loc[r].transcriptSegments
    IN  [video_id |-> Str(metadata.id),
         title |-> Str(metadata.title),
         uploader |-> Str(metadata.uploader),
         duration |-> Str(metadata.duration),
         url |-> Str(req[r].args.url),
         transcript |-> IF Len(transcriptSegments) > 0 THEN transcriptSegments
                        ELSE <<SentinelSegment>>,
         metadata |-> [transcription_date |-> Str(Now(r)),
                       source |-> Str("yt_dlp"),
                       language |-> Str(loc[r].language),
                       confidence |-> Num(IF Len(transcriptSegments) > 0
                                         THEN ConfidenceWithSegments
                                         ELSE ConfidenceWithout)]]

\* the record is built and writeTranscriptFile runs up to the opening of the file
PersistOpen(r) ==
    /\ pc[r] = "write"
    /\ LET data == TranscriptData(r)
           id   == loc[r].metadata.id
           w    == writeJSON(data, FilePath(id))
       IN  /\ loc' = [loc EXCEPT ![r].transcriptData = data]
           /\ IF w.ok
              THEN /\ OpenTruncate(id)
                   /\ pc' = [pc EXCEPT ![r] = "write_data"]
                   /\ result' = result
              ELSE /\ Fail(r, w.error)
                   /\ UNCHANGED <<store, persisted, gexpect>>
    /\ writes' = [writes EXCEPT ![r] = @ + 1]
    /\ UNCHANGED <<tmp, req, emitted, calls, gpc, greq, gres, wrVars, resVars, vttVars>>

\* the text reaches the file and writeTranscriptFile returns the path
PersistData(r) ==
    /\ pc[r] = "write_data"
    /\ WriteText(loc[r].metadata.id, Stringify(loc[r].transcriptData), r,
                 loc[r].transcriptData)
    /\ pc' = [pc EXCEPT ![r] = "notify4"]
    /\ UNCHANGED <<tmp, req, loc, emitted, calls, writes, result, gpc, greq, gres, wrVars, resVars, vttVars>>

\* tools.ts lines 154-165
TranscriptionResult(r) ==
    [video_id |-> loc[r].metadata.id,
     title |-> loc[r].metadata.title,
     uploader |-> loc[r].metadata.uploader,
     transcript_segments_count |-> Len(loc[r].transcriptSegments),
     next_action |-> [tool |-> "get_transcript",
                      parameters |-> [videoId |-> loc[r].metadata.id]]]

\* the final notification and the return of the summary
Notify4(r) ==
    /\ pc[r] = "notify4"
    /\ \E delivered \in BOOLEAN :
         IF ~req[r].token \/ delivered
         THEN /\ pc' = [pc EXCEPT ![r] = "done"]
              /\ emitted' = [emitted EXCEPT ![r] =
                              IF req[r].token
                              THEN Append(@, [progress |-> ProgressAt(4), total |-> ProgressTotal])
                              ELSE @]
              /\ result' = [result EXCEPT ![r] = Returned(TranscriptionResult(r))]
         ELSE /\ emitted' = emitted
              /\ Fail(r, PlainError("Not connected"))
    /\ UNCHANGED <<store, tmp, persisted, req, loc, calls, writes, getVars, wrVars, resVars, vttVars>>

----------------------------------------------------------------------------
(* resources.ts: the resource list and its pages *)

PAGE_SIZE == 10

\* the largest folder listed, and the largest one listed while the load that
\* registerResources starts is still running
MaxFiles == 21
MaxRacingFiles == 2

\* a folder of n .json files in the order readdir gives them; those in
\* `broken` do not load (readTranscriptFile throws)
Folder(n, broken) == [i \in 1..n |-> [name |-> i, loadable |-> i \notin broken]]

FolderSizes == {0, MaxRacingFiles, PAGE_SIZE, PAGE_SIZE + 1, MaxFiles}
Folders == {Folder(n, b) : n \in FolderSizes, b \in {{}, {1}}}

\* the Resource made of a transcript that loaded
Resource(file) == [uri |-> file.name, mimeType |-> "application/json"]

RECURSIVE LoadAll(_)
\* TRANSCRIPT_RESOURCES after one undisturbed run of loadTranscriptResources
LoadAll(files) ==
    IF files = <<>> THEN <<>>
    ELSE (IF Head(files).loadable THEN <<Resource(Head(files))>> ELSE <<>>)
            \o LoadAll(Tail(files))

LoaderIds == {"boot", "list"}
LoaderIdle == [pc |-> "idle", files |-> <<>>, i |-> 0]

\* loadTranscriptResources up to the loop: `await listTranscriptFiles()` and
\* TRANSCRIPT_RESOURCES = []
LoadList(l) ==
    /\ loaders[l].pc = "listing"
    /\ TRANSCRIPT_RESOURCES' = <<>>
    /\ loaders' = [loaders EXCEPT ![l] =
                     [pc |-> IF folder = <<>> THEN "done" ELSE "loop",
                      files |-> folder, i |-> 1]]
    /\ UNCHANGED <<store, tmp, persisted, reqVars, getVars, wrVars, vttVars,
                   folder, lpc, lreq, lres, walk>>

\* one turn of the loop: `await readTranscriptFile(...)`, then the push, or
\* the catch that skips the file; the function returns after the last turn
LoadFile(l) ==
    /\ loaders[l].pc = "loop"
    /\ LET file == loaders[l].files[loaders[l].i]
       IN  /\ TRANSCRIPT_RESOURCES' =
                IF file.loadable THEN Append(TRANSCRIPT_RESOURCES, Resource(file))
                ELSE TRANSCRIPT_RESOURCES
           /\ loaders' = [loaders EXCEPT
                            ![l].i = @ + 1,
                            ![l].pc = IF loaders[l].i = Len(loaders[l].files)
                                      THEN "done" ELSE "loop"]
    /\ UNCHANGED <<store, tmp, persisted, reqVars, getVars, wrVars, vttVars,
                   folder, lpc, lreq, lres, walk>>

\* request.params.cursor: undefined, or a string, which is the base64 of a
\* text or no base64 at all
NoCursor == [given |-> FALSE]
Cursor(base64, text) == [given |-> TRUE, base64 |-> base64, text |-> text]
btoa(text) == Cursor(TRUE, text)
atob(cursor) ==
    IF cursor.base64 THEN Returned(cursor.text)
    ELSE Thrown(PlainError("InvalidCharacterError"))

\* `if (cursor)`: undefined and the empty string are falsy
Truthy(cursor) == cursor.given /\ ~(cursor.base64 /\ cursor.text = <<>>)

\* cursors a caller can make up: the base64 of "abc", a string that is no
\* base64, the empty string, the base64 of "5"
MadeUpCursors ==
    {btoa(<<"a", "b", "c">>), Cursor(FALSE, <<"%", "%">>), btoa(<<>>), btoa(<<"5">>)}

NoWalk == [active |-> FALSE, seen |-> <<>>, next |-> NoCursor, complete |-> FALSE]

\* the ListResources handler is entered: `await loadTranscriptResources()`
ListEnter(cursor, newWalk) ==
    /\ lpc \in {"idle", "done", "failed"}
    /\ loaders["list"].pc \in {"idle", "done"}
    /\ lpc' = "loading"
    /\ lreq' = [cursor |-> cursor]
    /\ lres' = NoResult
    /\ loaders' = [loaders EXCEPT !["list"] = [pc |-> "listing", files |-> <<>>, i |-> 0]]
    /\ walk' = newWalk
    /\ UNCHANGED <<store, tmp, persisted, reqVars, getVars, wrVars, vttVars,
                   folder, TRANSCRIPT_RESOURCES>>

\* a caller lists without a cursor
ListFirst == ListEnter(NoCursor, [NoWalk EXCEPT !.active = TRUE])

\* the caller goes on with the nextCursor of the page it got
ListFollow ==
    /\ walk.active /\ ~walk.complete /\ lpc = "done"
    /\ ListEnter(walk.next, walk)

\* a caller lists with a cursor of its own making
ListWith(cursor) == ListEnter(cursor, NoWalk)

Min(a, b) == IF a < b THEN a ELSE b

\* Array.prototype.slice(startIndex, endIndex) for 0 <= startIndex
slice(array, startIndex, endIndex) == SubSeq(array, startIndex + 1, endIndex)

\* resources.ts lines 63-84 on the array as it is when the load has returned
ListPage ==
    /\ lpc = "loading"
    /\ loaders["list"].pc = "done"
    /\ LET cursor == lreq.cursor
       IN  IF Truthy(cursor) /\ ~atob(cursor).ok
           THEN /\ lres' = atob(cursor)
                /\ lpc' = "failed"
                /\ walk' = walk
           ELSE LET decodedCursor == IF Truthy(cursor) THEN parseInt(atob(cursor).value)
                                     ELSE NaN
                    startIndex == IF ~decodedCursor.nan THEN decodedCursor.val ELSE 0
                    endIndex   == Min(startIndex + PAGE_SIZE, Len(TRANSCRIPT_RESOURCES))
                    resources  == slice(TRANSCRIPT_RESOURCES, startIndex, endIndex)
                    nextCursor == IF endIndex < Len(TRANSCRIPT_RESOURCES)
                                  THEN btoa(NatToText(endIndex)) ELSE NoCursor
                IN  /\ lres' = Returned([resources |-> resources, nextCursor |-> nextCursor])
                    /\ lpc' = "done"
                    /\ walk' = IF walk.active
                               THEN [active |-> TRUE, seen |-> walk.seen \o resources,
                                     next |-> nextCursor, complete |-> nextCursor = NoCursor]
                               ELSE walk
    /\ UNCHANGED <<store, tmp, persisted, reqVars, getVars, wrVars, vttVars,
                   folder, TRANSCRIPT_RESOURCES, loaders, lreq>>

IdleResources ==
    /\ folder = <<>>
    /\ TRANSCRIPT_RESOURCES = <<>>
    /\ loaders = [l \in LoaderIds |-> LoaderIdle]
    /\ lpc = "idle" /\ lreq = NoneP /\ lres = NoResult /\ walk = NoWalk

IdleParser == vttIn = <<>> /\ vttOut = NoParse /\ codec = NoCodec

----------------------------------------------------------------------------
(* Specifications *)

IdleRequests ==
    /\ pc = [r \in Requests |-> "idle"]
    /\ req = [r \in Requests |-> NoneP]
    /\ loc = [r \in Requests |-> NoneP]
    /\ emitted = [r \in Requests |-> <<>>]
    /\ calls = [r \in Requests |-> <<>>]
    /\ writes = [r \in Requests |-> 0]
    /\ result = [r \in Requests |-> NoResult]

IdleCallers ==
    /\ gpc = "idle" /\ greq = NoneP /\ gres = NoResult /\ gexpect = NoneP
    /\ wpc = "idle" /\ wreq = NoneP /\ wres = NoResult

\* The store functions called directly, over a folder that may already hold
\* files of any kind
InitStore ==
    /\ store \in [VideoIds -> InitialFiles]
    /\ tmp = [f \in TempNames |-> NoFile]
    /\ persisted = [id \in VideoIds |-> NoneP]
    /\ IdleRequests
    /\ IdleCallers
    /\ IdleResources
    /\ IdleParser

NextStore ==
    \/ \E id \in VideoIds, data \in SampleRecords : WriteCall(id, data)
    \/ WriteOpen
    \/ WriteData
    \/ \E id \in VideoIds : GetCall(id)
    \/ GetExists
    \/ GetRead

SpecStore == InitStore /\ [][NextStore]_vars

\* the caller of a transcribe request that returned takes the next_action of
\* the summary: get_transcript with the video id it names
FollowUp(r) ==
    /\ HasReturned(result[r])
    /\ GetCall(result[r].value.next_action.parameters.videoId)

\* The server after start-up over an empty transcripts folder and a working
\* directory without caption files
Init ==
    /\ store = [id \in VideoIds |-> Absent]
    /\ tmp = [f \in TempNames |-> NoFile]
    /\ persisted = [id \in VideoIds |-> NoneP]
    /\ IdleRequests
    /\ IdleCallers
    /\ IdleResources
    /\ IdleParser

Next ==
    \/ \E r \in Requests, args \in TranscribeArgs, token \in BOOLEAN :
         Transcribe(r, args, token)
    \/ \E r \in Requests : Notify0(r)
    \/ \E r \in Requests : FetchMetadata(r)
    \/ \E r \in Requests : Notify1(r)
    \/ \E r \in Requests : Notify2(r)
    \/ \E r \in Requests : SubsExec(r)
    \/ \E r \in Requests : SubsReaddir(r)
    \/ \E r \in Requests : SubsReadFile(r)
    \/ \E r \in Requests : SubsUnlink(r)
    \/ \E r \in Requests : Notify3(r)
    \/ \E r \in Requests : PersistOpen(r)
    \/ \E r \in Requests : PersistData(r)
    \/ \E r \in Requests : Notify4(r)
    \/ \E r \in Requests : FollowUp(r)
    \/ \E args \in BadGetArgs : GetRejected(args)
    \/ GetExists
    \/ GetRead

Spec == Init /\ [][Next]_vars

\* what request r does next once it is under way: the continuation after the
\* await it is suspended at
Continue(r) ==
    \/ Notify0(r) \/ FetchMetadata(r) \/ Notify1(r) \/ Notify2(r)
    \/ SubsExec(r) \/ SubsReaddir(r) \/ SubsReadFile(r) \/ SubsUnlink(r)
    \/ Notify3(r) \/ PersistOpen(r) \/ PersistData(r) \/ Notify4(r)

\* The same server where every awaited promise settles: the yt-dlp calls by
\* exit or by the timeout given to execFile, the file operations and the
\* notifications by themselves; the event loop then runs the continuation
\* one transcribe request, followed from its entry to its end
LiveRequest == "r1"

NextLive ==
    \/ \E args \in TranscribeArgs, token \in BOOLEAN : Transcribe(LiveRequest, args, token)
    \/ Continue(LiveRequest)

\* The server where every awaited promise settles: the yt-dlp calls by exit or
\* by the timeout given to execFile, the file operations and the
\* notifications by themselves; the event loop then runs the continuation
SpecLive == Init /\ [][NextLive]_vars /\ WF_vars(Continue(LiveRequest))

\* The resource list after registerResources, over a folder that does not
\* change: the load registerResources started has returned, or, over a small
\* folder, is still to run
InitResources ==
    /\ store = [id \in VideoIds |-> Absent]
    /\ tmp = [f \in TempNames |-> NoFile]
    /\ persisted = [id \in VideoIds |-> NoneP]
    /\ IdleRequests
    /\ IdleCallers
    /\ IdleParser
    /\ folder \in Folders
    /\ \/ /\ TRANSCRIPT_RESOURCES = LoadAll(folder)
          /\ loaders = [l \in LoaderIds |->
                          IF l = "boot" THEN [pc |-> "done", files |-> folder,
                                              i |-> Len(folder) + 1]
                          ELSE LoaderIdle]
       \/ /\ Len(folder) <= MaxRacingFiles
          /\ TRANSCRIPT_RESOURCES = <<>>
          /\ loaders = [l \in LoaderIds |->
                          IF l = "boot" THEN [pc |-> "listing", files |-> <<>>, i |-> 0]
                          ELSE LoaderIdle]
    /\ lpc = "idle" /\ lreq = NoneP /\ lres = NoResult /\ walk = NoWalk

NextResources ==
    \/ \E l \in LoaderIds : LoadList(l)
    \/ \E l \in LoaderIds : LoadFile(l)
    \/ ListFirst
    \/ ListFollow
    \/ \E cursor \in MadeUpCursors : ListWith(cursor)
    \/ ListPage

SpecResources == InitResources /\ [][NextResources]_vars

\* The parse loop of extractSubtitles over the content of a caption file
InitParse ==
    /\ store = [id \in VideoIds |-> Absent]
    /\ tmp = [f \in TempNames |-> NoFile]
    /\ persisted = [id \in VideoIds |-> NoneP]
    /\ IdleRequests
    /\ IdleCallers
    /\ IdleResources
    /\ vttIn \in VttInputs
    /\ vttOut = NoParse
    /\ codec = NoCodec

NextParse == ParseLine

SpecParse == InitParse /\ [][NextParse]_vars

\* The same loop over the caption files made for the text of a cue
InitParseText ==
    /\ store = [id \in VideoIds |-> Absent]
    /\ tmp = [f \in TempNames |-> NoFile]
    /\ persisted = [id \in VideoIds |-> NoneP]
    /\ IdleRequests
    /\ IdleCallers
    /\ IdleResources
    /\ vttIn \in TextVttInputs
    /\ vttOut = NoParse
    /\ codec = NoCodec

SpecParseText == InitParseText /\ [][NextParse]_vars

\* The codec applied to a timestamp, well-formed or not
InitCodec ==
    /\ store = [id \in VideoIds |-> Absent]
    /\ tmp = [f \in TempNames |-> NoFile]
    /\ persisted = [id \in VideoIds |-> NoneP]
    /\ IdleRequests
    /\ IdleCallers
    /\ IdleResources
    /\ vttIn = <<>> /\ vttOut = NoParse
    /\ \E timeStr \in WellFormed \cup Malformed :
         codec = [NoCodec EXCEPT !.pc = "given", !.timeStr = timeStr]

NextCodec == CodecParse \/ CodecFormat

SpecCodec == InitCodec /\ [][NextCodec]_vars

----------------------------------------------------------------------------
(* Claims about the store, checked under SpecStore *)

\* a get_transcript of an id has ended, it began after a write of that id had
\* completed, and no write step touched the id while it ran
ReadAfterWrite == gpc = "done" /\ gexpect # NoneP

\* the record has no key beyond those the schema declares, at any level
OnlyDeclared(t) ==
    /\ DOMAIN t = TranscriptFields
    /\ \A i \in 1..Len(t.transcript) : DOMAIN t.transcript[i] = SegmentFields
    /\ DOMAIN t.metadata = MetadataFields

\* C3 as stated: readTranscriptFile(id) after writeTranscriptFile(id, T), with
\* no write to id in between, returns a value deep-equal to T, for every
\* schema-valid T.
C3_RoundTripExact ==
    ReadAfterWrite => gres.read = Returned(gexpect.data)

\* C3 amended: the read returns T less the keys the Transcript schema does not
\* declare: every declared field, of the record, of its metadata and of each
\* segment, has the value it has in T, no other key is present, and the value
\* is deep-equal to T when T has no undeclared key.
C3_RoundTripDeclared ==
    ReadAfterWrite =>
        /\ gres.read.ok
        /\ LET v == gres.read.value
               t == gexpect.data
           IN  /\ DOMAIN v = TranscriptFields
               /\ \A f \in TranscriptFields \ {"transcript", "metadata"} : v[f] = t[f]
               /\ DOMAIN v.metadata = MetadataFields
               /\ \A f \in MetadataFields : v.metadata[f] = t.metadata[f]
               /\ Len(v.transcript) = Len(t.transcript)
               /\ \A i \in 1..Len(t.transcript) :
                    /\ DOMAIN v.transcript[i] = SegmentFields
                    /\ \A f \in SegmentFields : v.transcript[i][f] = t.transcript[i][f]
               /\ OnlyDeclared(t) => v = t

\* a record with an undeclared key was written and read back without it
C3_Witness ==
    /\ ReadAfterWrite
    /\ gexpect.data = ExtraT
    /\ gres.read.ok
    /\ gres.read.value = ValidT

\* C5: readTranscriptFile(id) for an id without a file returns no value: it
\* throws TranscriptNotFoundError carrying videoId = id, and get_transcript
\* throws to its caller the error with that video id and the suggested action
\* to run transcribe_youtube first.
C5_MissingKey ==
    [][(gpc = "exists" /\ gpc' # "exists" /\ store[greq.videoId] = Absent) =>
        /\ gpc' = "done"
        /\ HasThrown(gres'.read)
        /\ gres'.read.error.name = "TranscriptNotFoundError"
        /\ gres'.read.error.videoId = greq.videoId
        /\ HasThrown(gres'.out)
        /\ gres'.out.error.error = "transcript_not_found"
        /\ gres'.out.error.video_id = greq.videoId
        /\ gres'.out.error.suggested_action =
             "Use transcribe_youtube tool to create a transcript for this video first"
      ]_vars

C5_Witness ==
    /\ gpc = "done"
    /\ store[greq.videoId] = Absent
    /\ HasThrown(gres.out)
    /\ gres.out.error.error = "transcript_not_found"

\* the text decodes as JSON and the value passes the Transcript schema
WellFormedFile(text) == text.kind = "json" /\ TranscriptValid(text.doc)

\* C6: reading a file that fails JSON decoding or schema validation throws the
\* invalid-format error (FileSystemError of operation parse, respectively
\* validate) and returns no value, and no read changes the store.
C6_InvalidFile ==
    [][(gpc = "read" /\ gpc' = "done") =>
        /\ store' = store
        /\ ~WellFormedFile(store[greq.videoId]) =>
             /\ HasThrown(gres'.read)
             /\ gres'.read.error.name = "FileSystemError"
             /\ gres'.read.error.operation =
                  (IF store[greq.videoId].kind = "json" THEN "validate" ELSE "parse")
             /\ HasThrown(gres'.out)
      ]_vars

C6_Witness ==
    /\ gpc = "done"
    /\ store[greq.videoId] = JsonText(LegacyT)
    /\ HasThrown(gres.read)
    /\ gres.read.error.operation = "validate"

----------------------------------------------------------------------------
(* Claims about the transcribe_youtube handler, checked under Spec *)

\* the caption fetch of request r raised an external-tool error
CaptionFetchRaised(r) ==
    /\ pc[r] # "idle"
    /\ loc[r].caught # NoneP
    /\ loc[r].caught.name = "YtDlpError"

\* C1: in a transcribe request whose metadata fetch succeeded and whose caption
\* fetch raised an external-tool error, the request does not fail, and once it
\* has completed it has returned its summary and written a record whose
\* transcript is the one sentinel segment and whose confidence is 0.0.
C1_Degradation ==
    \A r \in Requests :
        CaptionFetchRaised(r) =>
            /\ pc[r] # "failed"
            /\ pc[r] = "done" =>
                 /\ HasReturned(result[r])
                 /\ loc[r].transcriptData.transcript = <<SentinelSegment>>
                 /\ loc[r].transcriptData.metadata.confidence = Num(0)

\* the metadata call of request r was made and did not yield a metadata record
MetadataFetchFailed(r) ==
    /\ Len(calls[r]) >= 1
    /\ calls[r][1].tool = "metadata"
    /\ ~getVideoMetadata(calls[r][1].answer).ok

\* C2: a transcribe request whose metadata fetch failed is in the failed state
\* with an error thrown to its caller, has made no other call of the external
\* tool, has called writeTranscriptFile never, and, when no other request has
\* written, every video id of the store is still without a file.
C2_MetadataTerminal ==
    \A r \in Requests :
        MetadataFetchFailed(r) =>
            /\ pc[r] = "failed"
            /\ HasThrown(result[r])
            /\ Len(calls[r]) = 1
            /\ writes[r] = 0
            /\ (\A q \in Requests \ {r} : writes[q] = 0) =>
                    store = [id \in VideoIds |-> Absent]

C2_Witness ==
    \E r \in Requests :
        /\ MetadataFetchFailed(r)
        /\ pc[r] = "failed"
        /\ result[r].error.error = "yt-dlp execution failed"

\* C4: when get_transcript(v) has ended, it began after the last write to v had
\* completed, that write was the one of a transcribe request that returned its
\* summary with video_id v, and no write touched v meanwhile, then the tool
\* returned exactly the record that request persisted; if the request had
\* extracted two segments the record has two segments and confidence 0.95.
C4_TwoPhase ==
    \A r \in Requests :
        ( /\ ReadAfterWrite
          /\ gexpect.by = r
          /\ HasReturned(result[r])
          /\ result[r].value.video_id = greq.videoId ) =>
            /\ gexpect.data = loc[r].transcriptData
            /\ gres.out = Returned(loc[r].transcriptData)
            /\ Len(loc[r].transcriptSegments) = 2 =>
                 /\ Len(gres.out.value.transcript) = 2
                 /\ gres.out.value.transcript = loc[r].transcriptSegments
                 /\ gres.out.value.metadata.confidence = Num(95)

C4_Witness ==
    \E r \in Requests :
        /\ ReadAfterWrite
        /\ gexpect.by = r
        /\ HasReturned(result[r])
        /\ result[r].value.video_id = greq.videoId
        /\ result[r].value.transcript_segments_count = 2
        /\ HasReturned(gres.out)
        /\ Len(gres.out.value.transcript) = 2

\* C7: when extractSubtitles of a request has finished, by returning or by
\* throwing, after the external tool had exited with success, and no other
\* request is under way, no temp_<videoId>...vtt file is in the working
\* directory.
C7_TempCleanup ==
    \A r \in Requests :
        ( /\ pc[r] = "notify3"
          /\ loc[r].toolOk
          /\ \A q \in Requests \ {r} : pc[q] = "idle" ) =>
            TempFilesOf(loc[r].metadata.id) = {}

IsPrefix(s, t) == Len(s) <= Len(t) /\ \A i \in 1..Len(s) : s[i] = t[i]

Ended(r) == pc[r] \in {"done", "failed"}

\* C8: of two requests for the same url that have ended, r with a progress
\* token none of whose notifications was delivered and q without a token, where
\* the external tool answered r's calls as it answered q's, either both
\* returned or both failed, and both called writeTranscriptFile equally often.
C8_ProgressNeutral ==
    \A r, q \in Requests :
        ( /\ Ended(r) /\ Ended(q)
          /\ req[r].args = req[q].args
          /\ req[r].token /\ emitted[r] = <<>>
          /\ ~req[q].token
          /\ IsPrefix(calls[r], calls[q]) ) =>
            /\ HasReturned(result[r]) = HasReturned(result[q])
            /\ writes[r] = writes[q]

\* the notification a step adds to those of request r
Last(seq) == seq[Len(seq)]

\* C9: the notifications a request has emitted are checkpoints among 0, 1, 2,
\* 3, 4, each with total 4, every one greater than all those before it; a
\* request without a progress token has emitted none; checkpoint 1 is emitted
\* with the metadata at hand, and checkpoint 4 at the step that follows the
\* writing of the record, which only the writing of the record leads to.
C9_Emitted ==
    \A r \in Requests :
        /\ \A k \in 1..Len(emitted[r]) :
             /\ emitted[r][k].progress \in 0..4
             /\ emitted[r][k].total = 4
             /\ \A j \in 1..(k - 1) : emitted[r][j].progress < emitted[r][k].progress
        /\ pc[r] # "idle" /\ ~req[r].token => emitted[r] = <<>>
        /\ (\E k \in 1..Len(emitted[r]) : emitted[r][k].progress >= 1) =>
                loc[r].metadata # NoneP
        /\ (\E k \in 1..Len(emitted[r]) : emitted[r][k].progress = 4) =>
                pc[r] = "done" /\ writes[r] = 1

C9_Step ==
    \A r \in Requests :
        /\ emitted'[r] # emitted[r] =>
             /\ req[r].token
             /\ Len(emitted'[r]) = Len(emitted[r]) + 1
             /\ \A k \in 1..Len(emitted[r]) : emitted'[r][k] = emitted[r][k]
             /\ Last(emitted'[r]).progress = 1 => pc[r] = "notify1"
             /\ Last(emitted'[r]).progress = 4 => pc[r] = "notify4"
        /\ (pc[r] # "notify4" /\ pc'[r] = "notify4") =>
             /\ pc[r] = "write_data"
             /\ store'[loc[r].metadata.id] =
                  Overwrite(store[loc[r].metadata.id], Stringify(loc[r].transcriptData))

C9_Progress == []C9_Emitted /\ [][C9_Step]_vars

C9_Witness ==
    \E r \in Requests :
        /\ emitted[r] = [k \in 1..5 |-> [progress |-> k - 1, total |-> 4]]
        /\ pc[r] = "done"

\* the external tool answered the caption call of request r with a non-zero
\* exit and a stderr that reports that no subtitles are available
NoSubtitlesReported(r) ==
    /\ Len(calls[r]) = 2
    /\ calls[r][2].answer \in {ExitNoSubtitles, ExitNoAutoSubtitles}

\* C10: when the external tool reported that no subtitles are available,
\* extractSubtitles raised nothing and returned no segments and the language
\* "unknown", and the request is not failed.
C10_NoSubtitles ==
    \A r \in Requests :
        NoSubtitlesReported(r) =>
            /\ loc[r].caught = NoneP \/ loc[r].caught.name # "YtDlpError"
            /\ loc[r].transcriptSegments = <<>>
            /\ loc[r].language = "unknown"
            /\ pc[r] # "failed"

\* C11: whenever the metadata fetch of a request has failed (the tool exited
\* non-zero, printed what is not JSON, or was killed at the timeout), the error
\* getVideoMetadata threw is a YtDlpError with its exit code and stderr, and
\* the caller was given the external-tool failure.
C11_TypedError ==
    \A r \in Requests :
        MetadataFetchFailed(r) =>
            LET thrown == getVideoMetadata(calls[r][1].answer).error
            IN  /\ thrown.name = "YtDlpError"
                /\ {"exitCode", "stderr"} \subseteq DOMAIN thrown
                /\ result[r].error.error = "yt-dlp execution failed"

\* the four properties an error surfaced to a caller is to carry
SurfacedFields == {"error", "message", "video_id", "suggested_action"}

\* C12: every error thrown to the caller of transcribe_youtube or of
\* get_transcript carries an error tag, a message, the video id and a
\* suggested action.
C12_ErrorFields ==
    /\ \A r \in Requests :
         HasThrown(result[r]) => SurfacedFields \subseteq DOMAIN result[r].error
    /\ (gpc = "done" /\ HasThrown(gres.out)) =>
            SurfacedFields \subseteq DOMAIN gres.out.error

\* a transcribe request, respectively the get_transcript call, was rejected
\* at the input schema and nothing of the handler ran
C13_Rejected ==
    /\ \A r \in Requests :
         pc[r] = "rejected" =>
            /\ HasThrown(result[r])
            /\ calls[r] = <<>>
            /\ emitted[r] = <<>>
            /\ writes[r] = 0
            /\ loc[r] = InitLoc
    /\ gpc = "rejected" => HasThrown(gres.out) /\ gres.read = NoResult

\* a call whose arguments fail the input schema is rejected in the step that
\* enters the handler, and that step leaves every file as it is
C13_Step ==
    /\ \A r \in Requests :
         (pc[r] = "idle" /\ pc'[r] # "idle") =>
            /\ pc'[r] = "rejected" <=> "url" \notin DOMAIN req'[r].args
            /\ pc'[r] = "rejected" =>
                 /\ store' = store /\ tmp' = tmp
                 /\ emitted' = emitted /\ calls' = calls
    /\ (gpc' \notin {gpc, "read", "done"} /\ "videoId" \notin DOMAIN greq') =>
            /\ gpc' = "rejected"
            /\ store' = store /\ tmp' = tmp

\* C13: a transcribe_youtube or get_transcript call whose arguments fail the
\* input schema is rejected at the entry of the handler: the external tool is
\* not called, no progress notification is emitted, no file is read or
\* written.
C13_Boundary == []C13_Rejected /\ [][C13_Step]_vars

C13_Witness ==
    /\ \E r \in Requests : pc[r] = "rejected" /\ HasThrown(result[r])
    /\ gpc = "rejected"

\* C14: every readTranscriptFile that has ended, whatever writes of the
\* handlers ran beside it, either threw TranscriptNotFoundError or returned a
\* complete record; it never met a truncated or partly written file.
C14_NoPartialRead ==
    gpc = "done" =>
        \/ HasReturned(gres.read)
        \/ gres.read.error.name = "TranscriptNotFoundError"

\* the requests whose writeTranscriptFile of video id has completed
Writers(id) ==
    {r \in Requests : /\ pc[r] \in {"notify4", "done", "failed"}
                      /\ loc[r].transcriptData # NoneP
                      /\ loc[r].metadata.id = id}

\* C15: when every write to a video id that was begun has completed, the file
\* of the id holds exactly the record of one of the requests that wrote it,
\* never a mixture of two.
C15_LastWriteWins ==
    \A id \in VideoIds :
        ( /\ Writers(id) # {}
          /\ \A r \in Requests : pc[r] # "write_data" ) =>
            \E r \in Writers(id) : store[id] = Stringify(loc[r].transcriptData)

----------------------------------------------------------------------------
(* Claims about the resource list, checked under SpecResources *)

\* how often a resource is among those of a sequence
Occurrences(seq, uri) == Cardinality({k \in 1..Len(seq) : seq[k].uri = uri})

\* the cursor is a string that does not decode to a number
NotANumber(cursor) ==
    /\ Truthy(cursor)
    /\ ~atob(cursor).ok \/ parseInt(atob(cursor).value).nan

\* C16: over an unchanged folder, no list request fails; a page has at most 10
\* resources; the pages got from a request without cursor and then by
\* following each nextCursor, up to the page without one, hold every loadable
\* transcript exactly once and nothing else; and a request whose cursor does
\* not decode to a number gets the page at offset 0.
C16_Pagination ==
    /\ lpc # "failed"
    /\ lpc = "done" =>
         /\ Len(lres.value.resources) <= PAGE_SIZE
         /\ NotANumber(lreq.cursor) =>
              lres.value.resources =
                SubSeq(TRANSCRIPT_RESOURCES, 1, Min(PAGE_SIZE, Len(TRANSCRIPT_RESOURCES)))
    /\ (walk.active /\ walk.complete) =>
         /\ \A i \in 1..Len(folder) :
              Occurrences(walk.seen, folder[i].name) = IF folder[i].loadable THEN 1 ELSE 0
         /\ Len(walk.seen) = Len(LoadAll(folder))

----------------------------------------------------------------------------
(* Claims about termination, checked under SpecLive *)

\* C17: every transcribe request that is under way ends: it reaches the
\* persisted state (done, its record written) or the failed state, whatever
\* the yt-dlp calls answer, the timeouts among the answers.
C17_Terminates ==
    \A r \in Requests :
        (pc[r] \notin {"idle", "rejected"}) ~>
            (pc[r] = "failed" \/ (pc[r] = "done" /\ writes[r] = 1))

\* a request that failed when the metadata call timed out
C17_Witness ==
    \E r \in Requests :
        /\ pc[r] = "failed"
        /\ Len(calls[r]) = 1
        /\ calls[r][1] = [tool |-> "metadata", answer |-> ExitTimeout]

----------------------------------------------------------------------------
(* Claims about the caption parser, checked under SpecParse *)

\* the duration of a segment by its timestamps, in milliseconds
SegmentMs(seg) == parseVTTTime(seg.end_time.str) - parseVTTTime(seg.start_time.str)

\* the cue blocks a sample caption file was made of
CuesOf(lines) == CHOOSE cues \in CueLists : VttOf(cues) = lines

\* C18: every segment the parse loop has pushed has a duration strictly above
\* 0.010 s, so that a cue is emitted only if end - start > 0.010; a cue of
\* 0.005 s is dropped.
C18_DurationFilter ==
    \A k \in 1..Len(vttOut.transcriptSegments) :
        SegmentMs(vttOut.transcriptSegments[k]) > MicroSegment

\* the cues of a caption file that are one right after the other in it, the
\* second starting within 0.010 s of the end of the first, with the same text
Bridging(cues) ==
    /\ Len(cues) = 2
    /\ cues[1].text = cues[2].text /\ cues[1].text # <<>>
    /\ cues[2].start - (cues[1].start + cues[1].len) \in -MicroSegment..MicroSegment

\* C19: of two cue blocks with identical text, the second starting within
\* 0.010 s of the end of the first, the parser emits exactly one segment.
C19_BridgingSuppressed ==
    (ParseDone /\ Bridging(CuesOf(vttIn))) => Len(vttOut.transcriptSegments) = 1

\* the segment a cue block stands for
SegmentOf(c) ==
    [start_time |-> Str(secondsToVTTTime(c.start)),
     end_time |-> Str(secondsToVTTTime(c.start + c.len)),
     text |-> Str(c.text)]

RECURSIVE Preserved(_)
\* the segments of the cues with text that last longer than 0.010 s, in the
\* order of the file
Preserved(cues) ==
    IF cues = <<>> THEN <<>>
    ELSE (IF Head(cues).text # <<>> /\ Head(cues).len > MicroSegment
          THEN <<SegmentOf(Head(cues))>> ELSE <<>>) \o Preserved(Tail(cues))

RECURSIVE IsSubsequence(_, _)
\* the elements of a are among those of b, each its own, in the same order
IsSubsequence(a, b) ==
    IF a = <<>> THEN TRUE
    ELSE IF b = <<>> THEN FALSE
    ELSE IF Head(a) = Head(b) THEN IsSubsequence(Tail(a), Tail(b))
    ELSE IsSubsequence(a, Tail(b))

\* C20: every cue with text that lasts longer than 0.010 s has its own segment,
\* with its times and its text, also when it overlaps another cue or repeats
\* its text, and these segments are in the order of their timing lines.
C20_CuesPreserved ==
    ParseDone => IsSubsequence(Preserved(CuesOf(vttIn)), vttOut.transcriptSegments)

\* two cues with the same text, the second starting before the first and
\* overlapping it, have given two segments in the order of the file
C20_Witness ==
    /\ ParseDone
    /\ LET cues == CuesOf(vttIn)
       IN  /\ Len(cues) = 2
           /\ cues[1].text = cues[2].text /\ cues[1].text # <<>>
           /\ cues[1].len > MicroSegment /\ cues[2].len > MicroSegment
           /\ cues[2].start < cues[1].start
           /\ cues[1].start < cues[2].start + cues[2].len
           /\ vttOut.transcriptSegments = <<SegmentOf(cues[1]), SegmentOf(cues[2])>>

----------------------------------------------------------------------------
(* Claims about the text of a cue, checked under SpecParseText *)

\* the text holds a '<' with a '>' somewhere after it
HasTag(text) ==
    \E i \in 1..Len(text) : \E j \in (i + 1)..Len(text) :
        text[i] = "<" /\ text[j] = ">"

\* the cue blocks a caption file of TextVttInputs was made of
TextCuesOf(lines) == CHOOSE cues \in TextCueLists : TextVttOf(cues) = lines

HelloWorldMarked ==
    <<"<", "c", ">", "h", "e", "l", "l", "o", "<", "/", "c", ">", " ",
      "w", "o", "r", "l", "d">>
HelloWorld == <<"h", "e", "l", "l", "o", " ", "w", "o", "r", "l", "d">>

\* C21: no segment the parse loop has pushed has a text with a '<...>' span,
\* and the single cue whose text line is "<c>hello</c> world" gives the
\* segment text "hello world".
C21_MarkupStripped ==
    /\ \A k \in 1..Len(vttOut.transcriptSegments) :
          ~HasTag(vttOut.transcriptSegments[k].text.str)
    /\ (ParseDone /\ Len(TextCuesOf(vttIn)) = 1
          /\ TextCuesOf(vttIn)[1].lines = <<HelloWorldMarked>>) =>
            /\ Len(vttOut.transcriptSegments) = 1
            /\ vttOut.transcriptSegments[1].text = Str(HelloWorld)

\* the file of the single cue "<c>hello</c> world" has been parsed
C21_Witness ==
    /\ ParseDone
    /\ TextCuesOf(vttIn) = <<[lines |-> <<HelloWorldMarked>>, blank |-> TRUE]>>
    /\ Len(vttOut.transcriptSegments) = 1
    /\ vttOut.transcriptSegments[1].text = Str(HelloWorld)

\* the text lines of a cue block as the claim reads them: its own lines,
\* joined with single spaces, the markup removed
OwnText(c) == stripTags(join(c.lines, <<" ">>))

\* C25: the text of a segment is made of the text lines of its own cue block
\* only, joined with single spaces: the lines of a later cue, whose timing
\* line follows without a blank line between, are not in it.
C25_OwnTextOnly ==
    LET cues == TextCuesOf(vttIn)
    IN  ParseDone =>
          /\ Len(vttOut.transcriptSegments) = Len(cues)
          /\ \A k \in 1..Len(cues) :
                vttOut.transcriptSegments[k].text = Str(OwnText(cues[k]))

\* C26: no segment the parse loop has pushed has an empty text; the cue whose
\* only text line is "<c></c>" is discarded.
C26_NoEmptyText ==
    \A k \in 1..Len(vttOut.transcriptSegments) :
        vttOut.transcriptSegments[k].text # Str(<<>>)

----------------------------------------------------------------------------
(* Claims about the timestamp codec, checked under SpecCodec *)

\* the value of a field of a malformed timestamp: 0 when it is absent or
\* holds no number
FieldOrZero(parts, k, whole) ==
    IF k < 1 \/ k > Len(parts) THEN 0
    ELSE IF whole THEN OrZero(parseInt(parts[k]))
    ELSE OrZero(parseFloat(parts[k]))

C27_LastFieldSeconds ==
    codec.pc \in {"parsed", "formatted"} =>
        LET parts == split(codec.timeStr, <<":">>)
            n     == Len(parts)
        IN  n <= 3 =>
              codec.seconds = 3600000 * FieldOrZero(parts, n - 2, TRUE)
                                + 60000 * FieldOrZero(parts, n - 1, TRUE)
                                + FieldOrZero(parts, n, FALSE)

----------------------------------------------------------------------------
(* Claims about the course of a transcribe request, checked under Spec *)

\* the positions of the handler in the order of the code: fetching the
\* metadata, fetching the captions, assembling and writing, persisted
Course ==
    <<"notify0", "metadata", "notify1", "notify2", "subtitles", "readdir",
      "readfile", "unlink", "notify3", "write", "write_data", "notify4", "done">>
Rank(p) == CHOOSE k \in 1..Len(Course) : Course[k] = p

\* how often request r has invoked the external tool for `tool`
Invocations(r, tool) == Cardinality({k \in 1..Len(calls[r]) : calls[r][k].tool = tool})

C23_Counts ==
    \A r \in Requests :
        /\ Len(calls[r]) <= 2
        /\ Invocations(r, "metadata") <= 1
        /\ Invocations(r, "subtitles") <= 1
        /\ Invocations(r, "subtitles") = 1 =>
              /\ calls[r][1].tool = "metadata"
              /\ getVideoMetadata(calls[r][1].answer).ok
        /\ pc[r] \in {"done", "failed"} => Invocations(r, "metadata") = 1
        /\ writes[r] <= 1
        /\ writes[r] = 1 => pc[r] \in {"write_data", "notify4", "done", "failed"}

C23_Step ==
    \A r \in Requests :
        pc'[r] # pc[r] =>
            \/ pc[r] = "idle" /\ pc'[r] \in {"notify0", "rejected"}
            \/ /\ pc[r] \in {Course[k] : k \in 1..(Len(Course) - 1)}
               /\ \/ pc'[r] = "failed"
                  \/ /\ pc'[r] \in {Course[k] : k \in 1..Len(Course)}
                     /\ Rank(pc'[r]) > Rank(pc[r])

\* C23: a transcribe request goes forward only, from fetching the metadata
\* to fetching the captions, assembling and persisted, or to failed, and
\* stays where it ended; it invokes the external tool for the metadata
\* exactly once, for the captions at most once and only after the metadata
\* call succeeded, and writes the store at most once, after the caption step.
C23_StateMachine == []C23_Counts /\ [][C23_Step]_vars

\* C24: the record a transcribe request has persisted has a transcript that
\* is not empty and a confidence of 0.0 or 0.95: 0.0 exactly when the request
\* extracted no segment, and then the transcript is the one sentinel segment;
\* otherwise the transcript is the extracted segments and the confidence 0.95.
C24_SentinelOrSegments ==
    \A id \in VideoIds :
        persisted[id] # NoneP =>
            LET data      == persisted[id].data
                extracted == loc[persisted[id].by].transcriptSegments
            IN  /\ data.transcript # <<>>
                /\ data.metadata.confidence \in {Num(ConfidenceWithout), Num(ConfidenceWithSegments)}
                /\ data.metadata.confidence = Num(ConfidenceWithout) <=> extracted = <<>>
                /\ extracted = <<>> => data.transcript = <<SentinelSegment>>
                /\ extracted # <<>> =>
                      /\ data.transcript = extracted
                      /\ data.metadata.confidence = Num(ConfidenceWithSegments)

\* a request that extracted nothing has persisted the sentinel record
C24_Witness ==
    \E id \in VideoIds :
        /\ persisted[id] # NoneP
        /\ pc[persisted[id].by] = "done"
        /\ loc[persisted[id].by].transcriptSegments = <<>>
        /\ persisted[id].data.transcript = <<SentinelSegment>>
        /\ persisted[id].data.metadata.confidence = Num(0)
        /\ store[id] = Stringify(persisted[id].data)

\* the caption call of request r succeeded and wrote caption files with cues
CaptionsWritten(r) ==
    /\ Len(calls[r]) = 2
    /\ ~calls[r][2].answer.failed
    /\ calls[r][2].answer.langs # {}
    /\ calls[r][2].answer.content = "two_cues"

\* the caption file request r is about to look for, read or delete is gone
FileGone(r) ==
    \/ pc[r] = "readdir" /\ TempFilesOf(loc[r].metadata.id) = {}
    \/ pc[r] \in {"readfile", "unlink"} /\ tmp[loc[r].vttFile] = NoFile

\* request r found no caption file after its caption call had written one
Robbed(r) ==
    /\ CaptionsWritten(r)
    /\ pc[r] \in {"notify3", "write", "write_data", "notify4", "done", "failed"}
    /\ loc[r].caught = NoneP
    /\ loc[r].transcriptSegments = <<>> /\ loc[r].language = "unknown"

C28_Swallowed ==
    \A r \in Requests :
        (CaptionsWritten(r) /\ FileGone(r) /\ pc'[r] # pc[r]) =>
            /\ pc'[r] = "notify3"
            /\ result'[r] = result[r]
            /\ loc'[r].transcriptSegments = <<>>
            /\ loc'[r].language = "unknown"

C28_Sentinel ==
    \A r \in Requests :
        (Robbed(r) /\ pc[r] \in {"write_data", "notify4", "done"}) =>
            /\ loc[r].transcriptData.transcript = <<SentinelSegment>>
            /\ loc[r].transcriptData.metadata.confidence = Num(ConfidenceWithout)

\* C28: the temp caption file is named by the video id alone, so a request
\* whose caption call wrote a file with cues can find it deleted by another
\* request before it looks for it, reads it or deletes it; the request does
\* not fail at that step: it goes on without segments and persists the
\* sentinel transcript with confidence 0.0.
C28_TempCollision == []C28_Sentinel /\ [][C28_Swallowed]_vars

\* two requests for the same video: one has deleted the caption file, the
\* other, whose caption call had written cues, found none and has persisted
\* the sentinel record
C28_Witness ==
    \E r, q \in Requests :
        /\ r # q
        /\ Robbed(r) /\ pc[r] = "done"
        /\ CaptionsWritten(q) /\ loc[q].metadata.id = loc[r].metadata.id
        /\ Len(loc[q].transcriptSegments) = 2
        /\ loc[r].transcriptData.transcript = <<SentinelSegment>>
        /\ loc[r].transcriptData.metadata.confidence = Num(0)

----------------------------------------------------------------------------
(* Claims about the resource list under concurrent loads, checked under
   SpecResources *)

\* no uri is twice in the sequence
NoDuplicates(seq) ==
    \A i \in 1..Len(seq) : \A j \in (i + 1)..Len(seq) : seq[i].uri # seq[j].uri

\* C29: the resource list never holds two entries with the same uri, and a
\* list request returns the transcripts that are in the folder and load, each
\* once: all of them when they fit one page and no cursor was given.
C29_ListMatchesStore ==
    /\ NoDuplicates(TRANSCRIPT_RESOURCES)
    /\ lpc = "done" =>
          /\ NoDuplicates(lres.value.resources)
          /\ \A k \in 1..Len(lres.value.resources) :
                \E i \in 1..Len(folder) :
                    folder[i].loadable /\ lres.value.resources[k] = Resource(folder[i])
          /\ (~Truthy(lreq.cursor) /\ Len(LoadAll(folder)) <= PAGE_SIZE) =>
                lres.value.resources = LoadAll(folder)

----------------------------------------------------------------------------
(* Claims about a write that fails, checked under SpecStore *)

\* the record given to the write under way does not pass the Transcript schema
InvalidWrite == wpc = "open" /\ ~SafeParse(wreq.data).success

C30_Step ==
    /\ (wpc \in {"idle", "done"} /\ wpc' = "open") =>
            store' = store /\ persisted' = persisted
    /\ (InvalidWrite /\ wpc' # wpc) =>
            /\ wpc' = "done"
            /\ HasThrown(wres') /\ wres'.error.operation = "validate"
            /\ store' = store /\ persisted' = persisted

\* C30: writeTranscriptFile(id, T) with a T that does not pass the Transcript
\* schema fails at the validation, before the file is opened: from the call
\* to the failure the file of id and every other file stay as they were.
C30_FailedWriteKeepsStore == [][C30_Step]_vars

\* a write of an invalid record has failed and the valid record that was
\* there for its video id is still there
C30_Witness ==
    /\ wpc = "done"
    /\ HasThrown(wres)
    /\ ~SafeParse(wreq.data).success
    /\ store[wreq.videoId] = JsonText(ValidT)

====
